---- MODULE Spec2Model ----
(***************************************************************************)
(* Model of lit_agent/identifiers/api.py: the three public entry points    *)
(*   extract_identifiers_from_bibliography  (api.py 11-107)                *)
(*   extract_identifiers_from_url           (api.py 110-145)               *)
(*   validate_identifier                    (api.py 148-180)               *)
(* One behaviour of the model is one call of one entry point.  The         *)
(* collaborators the entry points import (JournalURLExtractor,             *)
(* WebScrapingExtractor, PDFExtractor, CompositeValidator, the data        *)
(* classes of base.py) are modelled from their documented contracts.       *)
(* Confidence, a float in [0,1], is modelled on the scale 0..MaxConf.      *)
(***************************************************************************)
EXTENDS Integers, Sequences, FiniteSets, TLC

VARIABLES
    op,                      \* entry point being executed
    pc,                      \* position inside the entry point
    urls,                    \* argument urls (or <<url>> for the single-url call)
    use_web_scraping,        \* argument
    use_api_validation,      \* argument (use_api for validate_identifier)
    use_metapub_validation,  \* argument (use_metapub for validate_identifier)
    arg_type,                \* validate_identifier: argument identifier_type
    arg_value,               \* validate_identifier: argument value
    identifiers,             \* result.identifiers
    failed_urls,             \* result.failed_urls
    extraction_stats,        \* result.extraction_stats
    vi,                      \* position of the validation loop in identifiers
    confidence,              \* local variable confidence (validator score)
    snapshot,                \* result.failed_urls.copy() being iterated
    fi,                      \* position of the Phase 2 loop in snapshot
    phase2_identifiers,      \* local list phase2_identifiers
    successful_urls,         \* local list successful_urls
    attempts,                \* what Phase 2 asked of its collaborators, in order
    queries,                 \* validate_identifier: what each validator call saw
    is_valid,                \* validate_identifier: local variable is_valid
    report                   \* validate_identifier: the returned dictionary

vars == << op, pc, urls, use_web_scraping, use_api_validation,
           use_metapub_validation, arg_type, arg_value, identifiers,
           failed_urls, extraction_stats, vi, confidence, snapshot, fi,
           phase2_identifiers, successful_urls, attempts, queries, is_valid,
           report >>

(***************************************************************************)
(* Bounds                                                                  *)
(***************************************************************************)
MaxUrls == 3
MaxConf == 2

ConfLevels == 0..MaxConf

(***************************************************************************)
(* Data model (base.py)                                                    *)
(***************************************************************************)
IdentifierType == {"DOI", "PMID", "PMC"}

\* IdentifierType.<member>.value
EnumValue(t) ==
    CASE t = "DOI" -> "doi"
      [] t = "PMID" -> "pmid"
      [] t = "PMC" -> "pmc"

\* a value that is not a member of IdentifierType, passed as identifier_type
NotAnIdentifierType == "not_an_enum"

IdentifierValue(t) ==
    CASE t = "DOI" -> "10.1126/science.abm5224"
      [] t = "PMID" -> "37674083"
      [] t = "PMC" -> "PMC11239014"
      [] OTHER -> "???"

AcademicIdentifier(t, c, u) ==
    [type |-> t, value |-> IdentifierValue(t), confidence |-> c, source_url |-> u]

NoStats ==
    [successful_extractions |-> 0, failed_extractions |-> 0,
     doi_count |-> 0, pmid_count |-> 0, pmc_count |-> 0]

NoReport == [valid |-> FALSE, confidence |-> 0, identifier_type |-> "", value |-> ""]

(***************************************************************************)
(* Input URLs                                                              *)
(***************************************************************************)
PubmedUrl == "https://pubmed.ncbi.nlm.nih.gov/37674083/"
PmcDoiUrl == "https://pmc.ncbi.nlm.nih.gov/articles/PMC11239014/?doi=10.1126/science.abm5224"
OpaqueUrl == "https://epublications.marquette.edu/biomedsci_fac/264/"
OpaquePdfUrl == "https://escholarship.org/content/qt0b29m655/qt0b29m655.pdf"

URLs == {PubmedUrl, PmcDoiUrl, OpaqueUrl, OpaquePdfUrl}

SeqUpTo(S, n) == UNION {[1..k -> S] : k \in 0..n}

(***************************************************************************)
(* Generic helpers                                                         *)
(***************************************************************************)
Max(a, b) == IF a >= b THEN a ELSE b

SetMax(S) == CHOOSE x \in S : \A y \in S : y <= x

RECURSIVE Flatten(_)
Flatten(ss) == IF ss = <<>> THEN <<>> ELSE Head(ss) \o Flatten(Tail(ss))

CountType(ids, t) == Cardinality({k \in 1..Len(ids) : ids[k].type = t})

CountOf(s, x) == Cardinality({k \in 1..Len(s) : s[k] = x})

InSeq(x, s) == \E k \in 1..Len(s) : s[k] = x

(***************************************************************************)
(* Collaborators, by contract                                              *)
(***************************************************************************)
\* JournalURLExtractor.extract_from_url: pure, deterministic parsing of the
\* URL string; every match is kept, with a baseline confidence per rule.
PatternExtract(url) ==
    CASE url = PubmedUrl -> << AcademicIdentifier("PMID", MaxConf, url) >>
      [] url = PmcDoiUrl -> << AcademicIdentifier("PMC", MaxConf, url),
                               AcademicIdentifier("DOI", MaxConf - 1, url) >>
      [] OTHER -> << >>

RECURSIVE FailedOf(_)
FailedOf(us) ==
    IF us = <<>> THEN <<>>
    ELSE (IF PatternExtract(Head(us)) = <<>> THEN <<Head(us)>> ELSE <<>>)
         \o FailedOf(Tail(us))

RECURSIVE IdentifiersOf(_)
IdentifiersOf(us) ==
    IF us = <<>> THEN <<>> ELSE PatternExtract(Head(us)) \o IdentifiersOf(Tail(us))

\* JournalURLExtractor.extract_from_urls: URL by URL, a URL yielding nothing
\* is recorded into failed_urls; the stats are those of the result.
ExtractFromUrls(us) ==
    [identifiers |-> IdentifiersOf(us),
     failed_urls |-> FailedOf(us),
     extraction_stats |->
        [successful_extractions |-> Len(us) - Len(FailedOf(us)),
         failed_extractions |-> Len(FailedOf(us)),
         doi_count |-> CountType(IdentifiersOf(us), "DOI"),
         pmid_count |-> CountType(IdentifiersOf(us), "PMID"),
         pmc_count |-> CountType(IdentifiersOf(us), "PMC")]]

\* PDFExtractor.is_pdf_url: classification of a URL as a direct document link
IsPdfUrl(url) == url = OpaquePdfUrl

\* What WebScrapingExtractor.extract_from_url / PDFExtractor.extract_from_url
\* may return for a URL: it depends on the fetch, so it is open per attempt.
ExtractorResults(extractor, url) ==
    IF extractor = "document"
    THEN { << >>, << AcademicIdentifier("PMC", 1, url) >> }
    ELSE { << >>,
           << AcademicIdentifier("DOI", MaxConf, url) >>,
           << AcademicIdentifier("DOI", MaxConf, url),
              AcademicIdentifier("PMID", MaxConf - 1, url) >> }

\* One validation source answering one request: a confirmation with its
\* score, or a failure (network error, not found).
SourceOutcomes ==
    { [ok |-> FALSE, score |-> 0] } \cup { [ok |-> TRUE, score |-> c] : c \in 1..MaxConf }

\* the scores of the enabled sources that responded
Responded(use_api, use_metapub, a, m) ==
    (IF use_api /\ a.ok THEN {a.score} ELSE {})
    \cup (IF use_metapub /\ m.ok THEN {m.score} ELSE {})

\* CompositeValidator.get_confidence_score: the best score among the enabled
\* sources that responded, 0 when none did
GetConfidenceScore(use_api, use_metapub, a, m) ==
    IF Responded(use_api, use_metapub, a, m) = {} THEN 0
    ELSE SetMax(Responded(use_api, use_metapub, a, m))

\* CompositeValidator.validate_identifier: false when every source failed
ValidatorValidates(use_api, use_metapub, a, m) ==
    Responded(use_api, use_metapub, a, m) # {}

(***************************************************************************)
(* api.py, the pieces of extract_identifiers_from_bibliography             *)
(***************************************************************************)
\* line 49: if use_api_validation or use_metapub_validation
ValidationRequested(use_api, use_metapub) == use_api \/ use_metapub

\* mutant: the validator's score overwrites the extraction confidence
MergeConfidence_Overwrite(extraction, validation) == validation

\* lines 60 and 143: identifier.confidence = max(identifier.confidence, confidence)
MergeConfidence(extraction, validation) == Max(extraction, validation)

\* mutant: an identifier no source confirmed is dropped from the list
Validated_DropsUnconfirmed(ids, k, score) ==
    IF score = 0
    THEN SubSeq(ids, 1, k - 1) \o SubSeq(ids, k + 1, Len(ids))
    ELSE [ids EXCEPT ![k].confidence = MergeConfidence(@, score)]

\* lines 55-60 and 139-143: the loop body applied to the k-th identifier
Validated(ids, k, score) ==
    [ids EXCEPT ![k].confidence = MergeConfidence(@, score)]

\* mutant: the recovery is counted as a success, the failure count is kept
StatsAfterRecovery_NoDecrement(stats) ==
    [stats EXCEPT !.successful_extractions = @ + 1]

\* mutant: PMC identifiers are not counted
RECURSIVE AddTypeCounts_NoPmc(_, _)
AddTypeCounts_NoPmc(stats, ids) ==
    IF ids = <<>> THEN stats
    ELSE AddTypeCounts_NoPmc(
            IF Head(ids).type = "DOI" THEN [stats EXCEPT !.doi_count = @ + 1]
            ELSE IF Head(ids).type = "PMID" THEN [stats EXCEPT !.pmid_count = @ + 1]
            ELSE stats,
            Tail(ids))

\* mutant: every URL goes to the page scraper
ChooseExtractor_AlwaysPage(is_pdf) == "page"

\* line 63: if use_web_scraping and result.failed_urls
Phase2Runs(web_scraping, failed) == web_scraping /\ failed # <<>>

\* lines 75-78: the extractor chosen for a URL
ChooseExtractor(is_pdf) == IF is_pdf THEN "document" ELSE "page"

\* lines 73-78: the outcomes of the body of the try block for one URL
AttemptOutcomes(url) ==
    { [url |-> url, extractor |-> "none", raised |-> TRUE, identifiers |-> <<>>] }
    \cup
    { [url |-> url, extractor |-> ChooseExtractor(IsPdfUrl(url)), raised |-> TRUE,
       identifiers |-> <<>>] }
    \cup
    { [url |-> url, extractor |-> ChooseExtractor(IsPdfUrl(url)), raised |-> FALSE,
       identifiers |-> r] : r \in ExtractorResults(ChooseExtractor(IsPdfUrl(url)), url) }

\* mutant: any returned list, even an empty one, counts as a recovery
Recovered_AnyReturn(o) == ~o.raised

\* line 80: if identifiers
Recovered(o) == ~o.raised /\ o.identifiers # <<>>

\* lines 84-85
StatsAfterRecovery(stats) ==
    [stats EXCEPT !.successful_extractions = @ + 1, !.failed_extractions = @ - 1]

\* mutant: the exception leaves the loop and the call
ExceptPropagates == "raised"

\* lines 86-88: except Exception: pass
ExceptPass == "sweep"

\* mutant: every occurrence of the URL is removed
RECURSIVE RemoveFirst_AllOccurrences(_, _)
RemoveFirst_AllOccurrences(s, x) ==
    IF s = <<>> THEN <<>>
    ELSE IF Head(s) = x THEN RemoveFirst_AllOccurrences(Tail(s), x)
    ELSE <<Head(s)>> \o RemoveFirst_AllOccurrences(Tail(s), x)

\* lines 92-93: list.remove of the first occurrence, guarded by "in"
RECURSIVE RemoveFirst(_, _)
RemoveFirst(s, x) ==
    IF s = <<>> THEN <<>>
    ELSE IF Head(s) = x THEN Tail(s)
    ELSE <<Head(s)>> \o RemoveFirst(Tail(s), x)

\* lines 91-93
RECURSIVE RemoveSuccessful(_, _)
RemoveSuccessful(failed, successful) ==
    IF successful = <<>> THEN failed
    ELSE RemoveSuccessful(RemoveFirst(failed, Head(successful)), Tail(successful))

\* lines 99-105
RECURSIVE AddTypeCounts(_, _)
AddTypeCounts(stats, ids) ==
    IF ids = <<>> THEN stats
    ELSE AddTypeCounts(
            IF Head(ids).type = "DOI" THEN [stats EXCEPT !.doi_count = @ + 1]
            ELSE IF Head(ids).type = "PMID" THEN [stats EXCEPT !.pmid_count = @ + 1]
            ELSE IF Head(ids).type = "PMC" THEN [stats EXCEPT !.pmc_count = @ + 1]
            ELSE stats,
            Tail(ids))

(***************************************************************************)
(* extract_identifiers_from_bibliography, step by step                     *)
(***************************************************************************)
\* lines 43-46: Phase 1
Phase1 ==
    /\ op = "bibliography" /\ pc = "phase1"
    /\ identifiers' = ExtractFromUrls(urls).identifiers
    /\ failed_urls' = ExtractFromUrls(urls).failed_urls
    /\ extraction_stats' = ExtractFromUrls(urls).extraction_stats
    /\ pc' = "validation"
    /\ vi' = 1
    /\ UNCHANGED << op, urls, use_web_scraping, use_api_validation,
                    use_metapub_validation, arg_type, arg_value, confidence,
                    snapshot, fi, phase2_identifiers, successful_urls, attempts,
                    queries, is_valid, report >>

\* line 49, condition false: no validation
ValidationSkipped ==
    /\ op = "bibliography" /\ pc = "validation"
    /\ ~ValidationRequested(use_api_validation, use_metapub_validation)
    /\ pc' = "phase2"
    /\ UNCHANGED << op, urls, use_web_scraping, use_api_validation,
                    use_metapub_validation, arg_type, arg_value, identifiers,
                    failed_urls, extraction_stats, vi, confidence, snapshot, fi,
                    phase2_identifiers, successful_urls, attempts, queries,
                    is_valid, report >>

\* lines 55-60: one iteration of the validation loop
ValidateNext ==
    /\ op = "bibliography" /\ pc = "validation"
    /\ ValidationRequested(use_api_validation, use_metapub_validation)
    /\ vi <= Len(identifiers)
    /\ \E a \in SourceOutcomes, m \in SourceOutcomes :
          /\ confidence' = GetConfidenceScore(use_api_validation,
                                               use_metapub_validation, a, m)
          /\ identifiers' = Validated(identifiers, vi, confidence')
    /\ vi' = vi + 1
    /\ UNCHANGED << op, pc, urls, use_web_scraping, use_api_validation,
                    use_metapub_validation, arg_type, arg_value, failed_urls,
                    extraction_stats, snapshot, fi, phase2_identifiers,
                    successful_urls, attempts, queries, is_valid, report >>

\* line 55: the validation loop is exhausted
ValidationDone ==
    /\ op = "bibliography" /\ pc = "validation"
    /\ ValidationRequested(use_api_validation, use_metapub_validation)
    /\ vi > Len(identifiers)
    /\ pc' = "phase2"
    /\ UNCHANGED << op, urls, use_web_scraping, use_api_validation,
                    use_metapub_validation, arg_type, arg_value, identifiers,
                    failed_urls, extraction_stats, vi, confidence, snapshot, fi,
                    phase2_identifiers, successful_urls, attempts, queries,
                    is_valid, report >>

\* lines 63-72: Phase 2 is entered, the copy of failed_urls is taken
Phase2Start ==
    /\ op = "bibliography" /\ pc = "phase2"
    /\ Phase2Runs(use_web_scraping, failed_urls)
    /\ snapshot' = failed_urls
    /\ fi' = 1
    /\ phase2_identifiers' = <<>>
    /\ successful_urls' = <<>>
    /\ pc' = "sweep"
    /\ UNCHANGED << op, urls, use_web_scraping, use_api_validation,
                    use_metapub_validation, arg_type, arg_value, identifiers,
                    failed_urls, extraction_stats, vi, confidence, attempts,
                    queries, is_valid, report >>

\* lines 63, 107: Phase 2 is not entered, the result is returned
Phase2Skipped ==
    /\ op = "bibliography" /\ pc = "phase2"
    /\ ~Phase2Runs(use_web_scraping, failed_urls)
    /\ pc' = "done"
    /\ UNCHANGED << op, urls, use_web_scraping, use_api_validation,
                    use_metapub_validation, arg_type, arg_value, identifiers,
                    failed_urls, extraction_stats, vi, confidence, snapshot, fi,
                    phase2_identifiers, successful_urls, attempts, queries,
                    is_valid, report >>

\* lines 72-88: one iteration of the Phase 2 loop
Phase2Attempt ==
    /\ op = "bibliography" /\ pc = "sweep"
    /\ fi <= Len(snapshot)
    /\ \E o \in AttemptOutcomes(snapshot[fi]) :
          /\ attempts' = Append(attempts, o)
          /\ IF Recovered(o)
             THEN /\ phase2_identifiers' = phase2_identifiers \o o.identifiers
                  /\ successful_urls' = Append(successful_urls, snapshot[fi])
                  /\ extraction_stats' = StatsAfterRecovery(extraction_stats)
             ELSE UNCHANGED << phase2_identifiers, successful_urls, extraction_stats >>
          /\ pc' = IF o.raised THEN ExceptPass ELSE "sweep"
    /\ fi' = fi + 1
    /\ UNCHANGED << op, urls, use_web_scraping, use_api_validation,
                    use_metapub_validation, arg_type, arg_value, identifiers,
                    failed_urls, vi, confidence, snapshot, queries, is_valid,
                    report >>

\* mutant: the validation is applied to the Phase 2 identifiers as well,
\* with a validator that confirms them with the top score
Phase2Apply_ThenValidates ==
    /\ op = "bibliography" /\ pc = "sweep"
    /\ fi > Len(snapshot)
    /\ failed_urls' = RemoveSuccessful(failed_urls, successful_urls)
    /\ identifiers' = identifiers \o
          [k \in 1..Len(phase2_identifiers) |->
              IF ValidationRequested(use_api_validation, use_metapub_validation)
              THEN Validated(phase2_identifiers, k, MaxConf)[k]
              ELSE phase2_identifiers[k]]
    /\ extraction_stats' = AddTypeCounts(extraction_stats, phase2_identifiers)
    /\ pc' = "done"
    /\ UNCHANGED << op, urls, use_web_scraping, use_api_validation,
                    use_metapub_validation, arg_type, arg_value, vi, confidence,
                    snapshot, fi, phase2_identifiers, successful_urls, attempts,
                    queries, is_valid, report >>

\* lines 90-107: after the loop, removals, merge, type counts, return
Phase2Apply ==
    /\ op = "bibliography" /\ pc = "sweep"
    /\ fi > Len(snapshot)
    /\ failed_urls' = RemoveSuccessful(failed_urls, successful_urls)
    /\ identifiers' = identifiers \o phase2_identifiers
    /\ extraction_stats' = AddTypeCounts(extraction_stats, phase2_identifiers)
    /\ pc' = "done"
    /\ UNCHANGED << op, urls, use_web_scraping, use_api_validation,
                    use_metapub_validation, arg_type, arg_value, vi, confidence,
                    snapshot, fi, phase2_identifiers, successful_urls, attempts,
                    queries, is_valid, report >>

(***************************************************************************)
(* extract_identifiers_from_url, step by step                              *)
(***************************************************************************)
\* lines 130-131
UrlExtract ==
    /\ op = "url" /\ pc = "url_extract"
    /\ identifiers' = PatternExtract(urls[1])
    /\ vi' = 1
    /\ pc' = "url_validation"
    /\ UNCHANGED << op, urls, use_web_scraping, use_api_validation,
                    use_metapub_validation, arg_type, arg_value, failed_urls,
                    extraction_stats, confidence, snapshot, fi,
                    phase2_identifiers, successful_urls, attempts, queries,
                    is_valid, report >>

\* line 134: (use_api_validation or use_metapub_validation) and identifiers
UrlValidationRequested(use_api, use_metapub, ids) ==
    (use_api \/ use_metapub) /\ ids # <<>>

\* lines 134, 145: no validation, the identifiers are returned
UrlValidationSkipped ==
    /\ op = "url" /\ pc = "url_validation"
    /\ ~UrlValidationRequested(use_api_validation, use_metapub_validation, identifiers)
    /\ pc' = "done"
    /\ UNCHANGED << op, urls, use_web_scraping, use_api_validation,
                    use_metapub_validation, arg_type, arg_value, identifiers,
                    failed_urls, extraction_stats, vi, confidence, snapshot, fi,
                    phase2_identifiers, successful_urls, attempts, queries,
                    is_valid, report >>

\* lines 139-143: one iteration of the validation loop
UrlValidateNext ==
    /\ op = "url" /\ pc = "url_validation"
    /\ UrlValidationRequested(use_api_validation, use_metapub_validation, identifiers)
    /\ vi <= Len(identifiers)
    /\ \E a \in SourceOutcomes, m \in SourceOutcomes :
          /\ confidence' = GetConfidenceScore(use_api_validation,
                                               use_metapub_validation, a, m)
          /\ identifiers' = Validated(identifiers, vi, confidence')
    /\ vi' = vi + 1
    /\ UNCHANGED << op, pc, urls, use_web_scraping, use_api_validation,
                    use_metapub_validation, arg_type, arg_value, failed_urls,
                    extraction_stats, snapshot, fi, phase2_identifiers,
                    successful_urls, attempts, queries, is_valid, report >>

\* lines 139, 145: the loop is exhausted, the identifiers are returned
UrlValidationDone ==
    /\ op = "url" /\ pc = "url_validation"
    /\ UrlValidationRequested(use_api_validation, use_metapub_validation, identifiers)
    /\ vi > Len(identifiers)
    /\ pc' = "done"
    /\ UNCHANGED << op, urls, use_web_scraping, use_api_validation,
                    use_metapub_validation, arg_type, arg_value, identifiers,
                    failed_urls, extraction_stats, vi, confidence, snapshot, fi,
                    phase2_identifiers, successful_urls, attempts, queries,
                    is_valid, report >>

(***************************************************************************)
(* validate_identifier, step by step                                       *)
(***************************************************************************)
\* what the sources answer to one call of the validator; a disabled source
\* is not asked
SourceAnswers(enabled) ==
    IF enabled THEN SourceOutcomes ELSE { [ok |-> FALSE, score |-> 0] }

\* line 172: is_valid = validator.validate_identifier(identifier_type, value)
ValidateCall ==
    /\ op = "validate" /\ pc = "validate_call"
    /\ \E a \in SourceAnswers(use_api_validation),
          m \in SourceAnswers(use_metapub_validation) :
          /\ is_valid' = ValidatorValidates(use_api_validation,
                                            use_metapub_validation, a, m)
          /\ queries' = Append(queries, [api |-> a, metapub |-> m])
    /\ pc' = "score_call"
    /\ UNCHANGED << op, urls, use_web_scraping, use_api_validation,
                    use_metapub_validation, arg_type, arg_value, identifiers,
                    failed_urls, extraction_stats, vi, confidence, snapshot, fi,
                    phase2_identifiers, successful_urls, attempts, report >>

\* line 173: confidence = validator.get_confidence_score(identifier_type, value)
ScoreCall ==
    /\ op = "validate" /\ pc = "score_call"
    /\ \E a \in SourceAnswers(use_api_validation),
          m \in SourceAnswers(use_metapub_validation) :
          /\ confidence' = GetConfidenceScore(use_api_validation,
                                               use_metapub_validation, a, m)
          /\ queries' = Append(queries, [api |-> a, metapub |-> m])
    /\ pc' = "report"
    /\ UNCHANGED << op, urls, use_web_scraping, use_api_validation,
                    use_metapub_validation, arg_type, arg_value, identifiers,
                    failed_urls, extraction_stats, vi, snapshot, fi,
                    phase2_identifiers, successful_urls, attempts, is_valid,
                    report >>

\* lines 175-180: the report is built and returned
ValidateReturn ==
    /\ op = "validate" /\ pc = "report"
    /\ arg_type \in IdentifierType
    /\ report' = [valid |-> is_valid, confidence |-> confidence,
                  identifier_type |-> EnumValue(arg_type), value |-> arg_value]
    /\ pc' = "done"
    /\ UNCHANGED << op, urls, use_web_scraping, use_api_validation,
                    use_metapub_validation, arg_type, arg_value, identifiers,
                    failed_urls, extraction_stats, vi, confidence, snapshot, fi,
                    phase2_identifiers, successful_urls, attempts, queries,
                    is_valid >>

\* line 178: identifier_type.value of an argument that is no IdentifierType
ValidateRaise ==
    /\ op = "validate" /\ pc = "report"
    /\ arg_type \notin IdentifierType
    /\ pc' = "raised"
    /\ UNCHANGED << op, urls, use_web_scraping, use_api_validation,
                    use_metapub_validation, arg_type, arg_value, identifiers,
                    failed_urls, extraction_stats, vi, confidence, snapshot, fi,
                    phase2_identifiers, successful_urls, attempts, queries,
                    is_valid, report >>

(***************************************************************************)
(* Specification                                                           *)
(***************************************************************************)
EntryPc(o) ==
    CASE o = "bibliography" -> "phase1"
      [] o = "url" -> "url_extract"
      [] o = "validate" -> "validate_call"

Init ==
    /\ op \in {"bibliography", "url", "validate"}
    /\ pc = EntryPc(op)
    /\ urls \in (CASE op = "bibliography" -> SeqUpTo(URLs, MaxUrls)
                   [] op = "url" -> [1..1 -> URLs]
                   [] op = "validate" -> { <<>> })
    /\ use_web_scraping \in (IF op = "bibliography" THEN BOOLEAN ELSE {FALSE})
    /\ use_api_validation \in BOOLEAN
    /\ use_metapub_validation \in BOOLEAN
    /\ arg_type \in (IF op = "validate"
                     THEN IdentifierType \cup {NotAnIdentifierType} ELSE {""})
    /\ arg_value \in (IF op = "validate"
                      THEN {IdentifierValue(t) : t \in IdentifierType} ELSE {""})
    /\ identifiers = <<>>
    /\ failed_urls = <<>>
    /\ extraction_stats = NoStats
    /\ vi = 1
    /\ confidence = 0
    /\ snapshot = <<>>
    /\ fi = 1
    /\ phase2_identifiers = <<>>
    /\ successful_urls = <<>>
    /\ attempts = <<>>
    /\ queries = <<>>
    /\ is_valid = FALSE
    /\ report = NoReport

Next ==
    \/ Phase1
    \/ ValidationSkipped
    \/ ValidateNext
    \/ ValidationDone
    \/ Phase2Start
    \/ Phase2Skipped
    \/ Phase2Attempt
    \/ Phase2Apply
    \/ UrlExtract
    \/ UrlValidationSkipped
    \/ UrlValidateNext
    \/ UrlValidationDone
    \/ ValidateCall
    \/ ScoreCall
    \/ ValidateReturn
    \/ ValidateRaise

Spec == Init /\ [][Next]_vars

(***************************************************************************)
(* Vocabulary of the properties                                            *)
(***************************************************************************)
InBibliography == op = "bibliography"

\* what Phase 1 produced for the input of this call
AfterPhase1 == ExtractFromUrls(urls)

\* the identifiers the pattern extractor produced for the input of this call
Extracted ==
    IF op = "bibliography" THEN IdentifiersOf(urls)
    ELSE IF op = "url" THEN PatternExtract(urls[1])
    ELSE <<>>

WithoutConfidence(ids) ==
    [k \in 1..Len(ids) |->
        [type |-> ids[k].type, value |-> ids[k].value, source_url |-> ids[k].source_url]]

AttemptSucceeded(a) == ~a.raised /\ a.identifiers # <<>>

AttemptFailed(a) == a.raised \/ a.identifiers = <<>>

NumSucceeded == Cardinality({k \in 1..Len(attempts) : AttemptSucceeded(attempts[k])})

NumFailedOn(u) ==
    Cardinality({k \in 1..Len(attempts) : attempts[k].url = u /\ AttemptFailed(attempts[k])})

ReturnedByAttempts == Flatten([k \in 1..Len(attempts) |-> attempts[k].identifiers])

Phase2Ran == snapshot # <<>>

(***************************************************************************)
(* C1                                                                      *)
(***************************************************************************)
\* C1: once Phase 1 has run, successful_extractions + failed_extractions is
\* the number of input URLs, in every later state of the call: right after
\* Phase 1, after each Phase 2 attempt (recovered, empty or raising) and in
\* the returned result, for every flag combination.
C1_SuccessPlusFailedIsInputCount ==
    (InBibliography /\ pc # "phase1") =>
        extraction_stats.successful_extractions
            + extraction_stats.failed_extractions = Len(urls)

\* a returned result whose Phase 2 recovered one URL, got nothing for another
\* and had an exception on a third
C1_Witness ==
    /\ InBibliography /\ pc = "done"
    /\ \E i, j, k \in 1..Len(attempts) :
          /\ AttemptSucceeded(attempts[i])
          /\ attempts[j].raised
          /\ ~attempts[k].raised /\ attempts[k].identifiers = <<>>

(***************************************************************************)
(* C2                                                                      *)
(***************************************************************************)
\* C2: a call of extract_identifiers_from_bibliography never ends in an
\* exception and, until it has returned, always has a next step: neither a
\* validation whose sources all fail nor an extractor or classification
\* that raises in Phase 2 gets out of the call.
C2_BatchNeverRaises ==
    InBibliography => (pc # "raised" /\ (pc # "done" => ENABLED Next))

\* a returned result of a call in which the validator's sources all failed
\* for an identifier and a Phase 2 extractor raised
C2_Witness ==
    /\ InBibliography /\ pc = "done"
    /\ ValidationRequested(use_api_validation, use_metapub_validation)
    /\ vi > 1 /\ confidence = 0
    /\ \E k \in 1..Len(attempts) : attempts[k].raised /\ attempts[k].extractor # "none"

(***************************************************************************)
(* C3                                                                      *)
(***************************************************************************)
\* C3: in both extraction entry points, the identifier the validation loop
\* handled last has confidence max(extraction confidence, validator score),
\* every Phase 1 identifier has at least its extraction confidence, and the
\* identifiers the loop has not reached have exactly it.
C3_ConfidenceIsMaxAndMonotone ==
    (op \in {"bibliography", "url"} /\ pc \notin {"phase1", "url_extract"}) =>
        /\ Len(identifiers) >= Len(Extracted)
        /\ \A k \in 1..Len(Extracted) :
              /\ identifiers[k].confidence >= Extracted[k].confidence
              /\ k >= vi => identifiers[k].confidence = Extracted[k].confidence
        /\ vi > 1 =>
              /\ identifiers[vi - 1].confidence >= confidence
              /\ identifiers[vi - 1].confidence
                    \in {Extracted[vi - 1].confidence, confidence}

\* an identifier was raised by the validator, and a later one met a
\* validator whose sources all failed (score 0) and kept its confidence
C3_Witness ==
    /\ op \in {"bibliography", "url"}
    /\ vi > 2 /\ confidence = 0
    /\ identifiers[vi - 1].confidence > 0
    /\ \E k \in 1..(vi - 2) : identifiers[k].confidence > Extracted[k].confidence

(***************************************************************************)
(* C4                                                                      *)
(***************************************************************************)
\* C4: in the returned result a URL of the input is in failed_urls if and
\* only if Phase 1 produced nothing for it and no Phase 2 attempt on it
\* returned an identifier, also for inputs that repeat a URL.
C4_FailedUrlsAreExactlyTheUnrecovered ==
    (InBibliography /\ pc = "done") =>
        \A k \in 1..Len(urls) :
            InSeq(urls[k], failed_urls)
            <=> /\ PatternExtract(urls[k]) = <<>>
                /\ ~\E a \in 1..Len(attempts) :
                       attempts[a].url = urls[k] /\ AttemptSucceeded(attempts[a])

(***************************************************************************)
(* C5                                                                      *)
(***************************************************************************)
\* C5: failed_urls is not touched while the sweep over its copy runs, and in
\* the returned result no URL that a Phase 2 attempt recovered is in
\* failed_urls.
C5_RecoveredUrlLeavesFailedUrls ==
    /\ (InBibliography /\ pc = "sweep") => failed_urls = snapshot
    /\ (InBibliography /\ pc = "done") =>
          \A a \in 1..Len(attempts) :
              AttemptSucceeded(attempts[a]) => ~InSeq(attempts[a].url, failed_urls)

(***************************************************************************)
(* C6                                                                      *)
(***************************************************************************)
\* C6: a Phase 2 attempt that returns nothing or raises ends neither the
\* loop nor the call; the two extraction counters move only by the attempts
\* that recovered something, the Phase 2 identifiers are those the attempts
\* returned, failed_urls keeps an entry for every failed attempt, and every
\* URL of the copy is attempted, in order.
C6_FailedAttemptIsSwallowed ==
    (InBibliography /\ Phase2Ran) =>
        /\ pc \in {"sweep", "done"}
        /\ extraction_stats.successful_extractions
              = AfterPhase1.extraction_stats.successful_extractions + NumSucceeded
        /\ extraction_stats.failed_extractions
              = AfterPhase1.extraction_stats.failed_extractions - NumSucceeded
        /\ phase2_identifiers = ReturnedByAttempts
        /\ Len(successful_urls) = NumSucceeded
        /\ \A k \in 1..Len(attempts) : attempts[k].url = snapshot[k]
        /\ pc = "sweep" => Len(attempts) = fi - 1 /\ failed_urls = snapshot
        /\ pc = "done" =>
              /\ Len(attempts) = Len(snapshot)
              /\ \A u \in URLs : CountOf(failed_urls, u) >= NumFailedOn(u)
              /\ \A k \in 1..Len(attempts) :
                    AttemptFailed(attempts[k]) => InSeq(attempts[k].url, failed_urls)

\* a returned result of a sweep in which an attempt raised, a later one
\* returned nothing and a still later one recovered its URL
C6_Witness ==
    /\ InBibliography /\ pc = "done"
    /\ \E i, j, k \in 1..Len(attempts) :
          /\ i < j /\ j < k
          /\ attempts[i].raised
          /\ ~attempts[j].raised /\ attempts[j].identifiers = <<>>
          /\ AttemptSucceeded(attempts[k])

(***************************************************************************)
(* C7                                                                      *)
(***************************************************************************)
\* C7: during and right after the validation step the identifiers are those
\* of Phase 1 in type, value, source URL, number and order, failed_urls and
\* extraction_stats are those of Phase 1, and with both validation flags
\* false the identifiers, confidence included, are exactly those of Phase 1.
C7_ValidationChangesOnlyConfidence ==
    (InBibliography /\ pc \in {"validation", "phase2"}) =>
        /\ WithoutConfidence(identifiers) = WithoutConfidence(AfterPhase1.identifiers)
        /\ failed_urls = AfterPhase1.failed_urls
        /\ extraction_stats = AfterPhase1.extraction_stats
        /\ (~use_api_validation /\ ~use_metapub_validation) =>
              identifiers = AfterPhase1.identifiers

\* the validation step is over: it raised one confidence and met a validator
\* whose sources all failed
C7_Witness ==
    /\ InBibliography /\ pc = "phase2"
    /\ vi > Len(identifiers) /\ vi > 2
    /\ confidence = 0
    /\ identifiers # AfterPhase1.identifiers
    /\ failed_urls # <<>>

(***************************************************************************)
(* C8                                                                      *)
(***************************************************************************)
\* C8: in the returned result each type count is the number of identifiers
\* of that type in identifiers, the Phase 1 identifiers come first, in their
\* order, and the identifiers the Phase 2 attempts returned follow them, in
\* the order of the attempts.
C8_CountsReflectIdentifiers ==
    (InBibliography /\ pc = "done") =>
        /\ extraction_stats.doi_count = CountType(identifiers, "DOI")
        /\ extraction_stats.pmid_count = CountType(identifiers, "PMID")
        /\ extraction_stats.pmc_count = CountType(identifiers, "PMC")
        /\ Len(identifiers) = Len(AfterPhase1.identifiers) + Len(ReturnedByAttempts)
        /\ WithoutConfidence(SubSeq(identifiers, 1, Len(AfterPhase1.identifiers)))
              = WithoutConfidence(AfterPhase1.identifiers)
        /\ SubSeq(identifiers, Len(AfterPhase1.identifiers) + 1, Len(identifiers))
              = ReturnedByAttempts

\* a returned result with Phase 1 identifiers followed by Phase 2 identifiers
\* of the three types
C8_Witness ==
    /\ InBibliography /\ pc = "done"
    /\ AfterPhase1.identifiers # <<>>
    /\ \A t \in IdentifierType : CountType(phase2_identifiers, t) > 0

(***************************************************************************)
(* C9                                                                      *)
(***************************************************************************)
\* C9: the report of validate_identifier has confidence 0 and valid false
\* when every enabled source failed, never has valid true with confidence 0,
\* and echoes the identifier type and the value.
C9_ReportIsOneOutcome ==
    (op = "validate" /\ pc = "done") =>
        /\ (\A q \in 1..Len(queries) :
                /\ use_api_validation => ~queries[q].api.ok
                /\ use_metapub_validation => ~queries[q].metapub.ok)
              => (report.confidence = 0 /\ ~report.valid)
        /\ ~(report.valid /\ report.confidence = 0)
        /\ report.identifier_type = EnumValue(arg_type)
        /\ report.value = arg_value

(***************************************************************************)
(* C10                                                                     *)
(***************************************************************************)
\* the part of C10 that does not depend on the classification's outcome:
\* Phase 2 asks its collaborators only when use_web_scraping is set and
\* Phase 1 left failed URLs; then the attempts are those of the copy of
\* failed_urls, one per entry, in order; without use_web_scraping nothing is
\* asked and identifiers (up to the validated confidence), failed_urls and
\* stats are those of Phase 1.
C10_Dispatch ==
    InBibliography =>
        /\ attempts # <<>> =>
              (use_web_scraping /\ AfterPhase1.failed_urls # <<>>
                 /\ snapshot = AfterPhase1.failed_urls)
        /\ \A k \in 1..Len(attempts) : attempts[k].url = snapshot[k]
        /\ (pc = "done" /\ use_web_scraping) => Len(attempts) = Len(AfterPhase1.failed_urls)
        /\ (pc = "done" /\ ~use_web_scraping) =>
              /\ attempts = <<>>
              /\ WithoutConfidence(identifiers) = WithoutConfidence(AfterPhase1.identifiers)
              /\ failed_urls = AfterPhase1.failed_urls
              /\ extraction_stats = AfterPhase1.extraction_stats

\* C10 as stated: every attempted URL is handed to exactly one extractor,
\* the document extractor for a PDF URL and the page scraper otherwise.
C10_ExactlyOneExtractorPerUrl ==
    /\ C10_Dispatch
    /\ InBibliography =>
          \A k \in 1..Len(attempts) :
              attempts[k].extractor
                  = (IF IsPdfUrl(attempts[k].url) THEN "document" ELSE "page")

\* C10 amended: every attempted URL is handed to at most one extractor, the
\* document extractor for a PDF URL and the page scraper otherwise, and to
\* none exactly when the classification of the URL raised.
C10_AtMostOneExtractorPerUrl ==
    /\ C10_Dispatch
    /\ InBibliography =>
          \A k \in 1..Len(attempts) :
              \/ attempts[k].extractor
                    = (IF IsPdfUrl(attempts[k].url) THEN "document" ELSE "page")
              \/ attempts[k].extractor = "none" /\ attempts[k].raised

\* a returned result of a sweep that used the document extractor for one
\* URL, the page scraper for another and no extractor for a third
C10_Witness ==
    /\ InBibliography /\ pc = "done"
    /\ \E i, j, k \in 1..Len(attempts) :
          /\ attempts[i].extractor = "document"
          /\ attempts[j].extractor = "page"
          /\ attempts[k].extractor = "none"

(***************************************************************************)
(* C11                                                                     *)
(***************************************************************************)
\* C11: the validation loop runs before any Phase 2 attempt, never goes
\* past the Phase 1 identifiers and is over for good once Phase 2 is
\* reached; in the returned result every Phase 2 identifier has exactly the
\* confidence its extractor returned, whatever the validation flags.
C11_Phase2IdentifiersAreNotValidated ==
    InBibliography =>
        /\ pc \in {"phase1", "validation", "phase2"} =>
              (attempts = <<>> /\ snapshot = <<>> /\ phase2_identifiers = <<>>)
        /\ vi <= Len(AfterPhase1.identifiers) + 1
        /\ pc \in {"phase2", "sweep", "done"} =>
              vi = (IF use_api_validation \/ use_metapub_validation
                    THEN Len(AfterPhase1.identifiers) + 1 ELSE 1)
        /\ pc = "done" =>
              /\ Len(identifiers) = Len(AfterPhase1.identifiers) + Len(ReturnedByAttempts)
              /\ \A k \in 1..Len(ReturnedByAttempts) :
                    identifiers[Len(AfterPhase1.identifiers) + k].confidence
                        = ReturnedByAttempts[k].confidence

\* a returned result of a call with validation requested, in which the
\* validator raised a Phase 1 identifier to the top score and Phase 2 added
\* an identifier that still has its extractor's lower confidence
C11_Witness ==
    /\ InBibliography /\ pc = "done"
    /\ use_api_validation \/ use_metapub_validation
    /\ \E k \in 1..Len(AfterPhase1.identifiers) :
          /\ identifiers[k].confidence > AfterPhase1.identifiers[k].confidence
          /\ identifiers[k].confidence = MaxConf
    /\ \E k \in (Len(AfterPhase1.identifiers) + 1)..Len(identifiers) :
          identifiers[k].confidence < MaxConf

(***************************************************************************)
(* C12                                                                     *)
(***************************************************************************)
\* C12: failed_extractions is never negative, and when it is the number of
\* entries of failed_urls after Phase 1 it is so before Phase 2 and in the
\* returned result; during the sweep it is that number less the recoveries
\* whose removal is still to come.
C12_FailedCountIsFailedUrlsLength ==
    (InBibliography /\ pc # "phase1") =>
        /\ extraction_stats.failed_extractions >= 0
        /\ AfterPhase1.extraction_stats.failed_extractions = Len(AfterPhase1.failed_urls) =>
              /\ pc \in {"validation", "phase2", "done"} =>
                    extraction_stats.failed_extractions = Len(failed_urls)
              /\ pc = "sweep" =>
                    extraction_stats.failed_extractions
                        = Len(failed_urls) - Len(successful_urls)

\* a returned result for an input that repeats a failed URL, one attempt on
\* it recovering it and another failing
C12_Witness ==
    /\ InBibliography /\ pc = "done"
    /\ \E i, j \in 1..Len(attempts) :
          /\ i # j
          /\ attempts[i].url = attempts[j].url
          /\ AttemptSucceeded(attempts[i])
          /\ AttemptFailed(attempts[j])
    /\ \E k \in 1..Len(attempts) : attempts[k].raised

====
